---- MODULE Spec2Model ----
(***************************************************************************)
(* Model of music_lottery: the catalog reconciler (scan_update_musiclib),  *)
(* the session store (AccessSession), the draw endpoint (/draw), the       *)
(* serving endpoint (/get), the maintenance gate (pause_event), the artist *)
(* splitter of musiclib.py and the RWContext of utils.py.                  *)
(* Strings are sequences of one-character strings.  Time is in seconds.    *)
(***************************************************************************)
EXTENDS Integers, Sequences, FiniteSets, TLC

\* ------------------------------------------------------------------ bounds
MaxTicks == 1
MaxIds == 2
MaxSessions == 1
\* the longest generated argument string of a musiclib.py call
MaxLen == 4
\* the largest read_limit an RWContext is constructed with
MaxReadLimit == 2

\* ------------------------------------------------------- program constants
MinExpires == 30
MaxExpires == 86400
default_expires == 1800

\* Python's None where a string, respectively a list of strings, is expected
None == <<"None">>
NoneList == <<None>>
\* the expires query parameter left out
Omitted == -1

\* --------------------------------------------------------------- strings
RECURSIVE Find(_, _, _)
\* least index i >= from with sub occurring in s at i, or 0
Find(s, sub, from) ==
    IF from + Len(sub) - 1 > Len(s) THEN 0
    ELSE IF SubSeq(s, from, from + Len(sub) - 1) = sub THEN from
    ELSE Find(s, sub, from + 1)

Contains(s, sub) == Find(s, sub, 1) # 0

LowerChar(c) ==
    CASE c = "A" -> "a" [] c = "B" -> "b" [] c = "C" -> "c" [] c = "D" -> "d"
      [] c = "X" -> "x" [] c = "Y" -> "y" [] c = "Z" -> "z" [] c = "S" -> "s"
      [] OTHER -> c

Lower(s) == [i \in 1..Len(s) |-> LowerChar(s[i])]

RECURSIVE Strip(_)
Strip(s) ==
    IF s = <<>> THEN s
    ELSE IF Head(s) = " " THEN Strip(Tail(s))
    ELSE IF s[Len(s)] = " " THEN Strip(SubSeq(s, 1, Len(s) - 1))
    ELSE s

RECURSIVE RemoveChars(_, _)
RemoveChars(s, cs) ==
    IF s = <<>> THEN <<>>
    ELSE IF Head(s) \in cs THEN RemoveChars(Tail(s), cs)
    ELSE <<Head(s)>> \o RemoveChars(Tail(s), cs)

RECURSIVE Split(_, _)
\* str.split(delimiter)
Split(s, d) ==
    LET i == Find(s, d, 1) IN
    IF i = 0 THEN <<s>>
    ELSE <<SubSeq(s, 1, i - 1)>> \o Split(SubSeq(s, i + Len(d), Len(s)), d)

SeqToSet(q) == {q[i] : i \in 1..Len(q)}

\* ------------------------------------------------------------ musiclib.py
RECURSIVE split_loop(_, _, _, _, _)
split_loop(inputs, delimiter, excs, ignore_case, i) ==
    IF i > Len(inputs) THEN <<>>
    ELSE IF i + 1 <= Len(inputs)
            /\ (LET exc == inputs[i] \o delimiter \o inputs[i + 1]
                IN (IF ignore_case THEN Lower(exc) ELSE exc) \in excs)
         THEN <<inputs[i] \o delimiter \o inputs[i + 1]>>
                 \o split_loop(inputs, delimiter, excs, ignore_case, i + 2)
         ELSE <<inputs[i]>>
                 \o split_loop(inputs, delimiter, excs, ignore_case, i + 1)

split_with_exclusions(input_string, delimiter, exclusions, ignore_case) ==
    LET inputs == Split(input_string, delimiter)
        excs == IF ignore_case THEN {Lower(e) : e \in SeqToSet(exclusions)}
                ELSE SeqToSet(exclusions)
    IN IF exclusions = <<>> THEN inputs
       ELSE split_loop(inputs, delimiter, excs, ignore_case, 1)

\* ConfigModel defaults for the splitter, with one exclusion configured
artists_split == << <<"/">>, <<";">>, <<",">> >>
artists_dont_split == << <<"A", "C", "/", "D", "C">> >>

RECURSIVE handle_loop(_, _)
handle_loop(s, k) ==
    IF k > Len(artists_split) THEN NoneList
    ELSE LET result == split_with_exclusions(s, artists_split[k],
                                             artists_dont_split, FALSE)
         IN IF Len(result) > 1 THEN result ELSE handle_loop(s, k + 1)

handle_artist_field(artist_field) ==
    IF Len(artist_field) # 1 THEN artist_field
    ELSE handle_loop(artist_field[1], 1)

RECURSIVE JsonEscape(_)
JsonEscape(t) ==
    IF t = <<>> THEN <<>>
    ELSE (IF Head(t) \in {"\"", "\\"} THEN <<"\\", Head(t)>>
          ELSE <<Head(t)>>) \o JsonEscape(Tail(t))

RECURSIVE JsonItems(_)
JsonItems(l) ==
    IF l = <<>> THEN <<>>
    ELSE <<"\"">> \o JsonEscape(Head(l)) \o <<"\"">>
         \o (IF Len(l) > 1 THEN <<",", " ">> ELSE <<>>) \o JsonItems(Tail(l))

\* json.dumps(v, ensure_ascii=False) of None or a list of strings
json_dumps(v) ==
    IF v = NoneList THEN <<"n", "u", "l", "l">>
    ELSE <<"[">> \o JsonItems(v) \o <<"]">>

\* the tag of a file as TinyTag reads it: title, album (None when absent),
\* the artist field (a list of strings), and whether TinyTag.get raises
read_metadata(tag) ==
    [title |-> tag.title,
     album |-> tag.album,
     artists |-> json_dumps(handle_artist_field(tag.artist))]

\* ------------------------------------------------------------- the files
Paths == {"a.mp3", "b.flac"}
NoFile == [absent |-> TRUE]
NoEntry == [absent |-> TRUE]

TagXY == [title |-> <<"S", "A">>, album |-> None,
          artist |-> << <<"X", "/", "Y">> >>, bad |-> FALSE]
TagZ == [title |-> <<"S", "B">>, album |-> <<"L">>,
         artist |-> << <<"Z">> >>, bad |-> FALSE]
TagBad == [title |-> None, album |-> None, artist |-> <<>>, bad |-> TRUE]

\* TinyTag.get raises on a missing or malformed file
ReadFails(f) == IF f = NoFile THEN TRUE ELSE f.tag.bad

Scanners == {"startup", "sched", "r1", "r2"}
Requests == {"r1", "r2"}

\* now          time.time()
\* fs           the library on disk: path -> NoFile or [mtime, tag]
\* catalog      the MusicLibItem table: path -> NoEntry or the row
\* nextId       the number of MusicLibItem ids minted so far, plus one
\* sessions     the AccessSession table
\* nextSid      the number of session ids minted so far, plus one
\* db_scanlock  TRUE while the lock is held
\* pause_event  the flag of the event
\* pc, loc      where each caller of scan_update_musiclib stands, its locals
\*              inside the call and its return value after it
\* draw         the frame of the /draw request between SELECT and INSERT
\* resp         the last response sent for /scan, /draw or /get
\* stable       history: 0 a file changed since the last walk (or there was
\*              none), 1 a pass has walked and no file changed since, 2 a pass
\*              has returned and no file changed since its walk
\* manual       history: an authorized /pause was served and no authorized
\*              /resume since
\* config       the ConfigModel the service was started with
\* call         one call of a function of musiclib.py: its arguments and,
\*              once it has returned, its result
\* read_limit, write_semaphore, read_semaphore, read_num, read_num_lock
\*              the RWContext of utils.py (a semaphore is its value, the lock
\*              is the task that holds it)
\* task         where each task that uses the RWContext stands
VARIABLES now, fs, catalog, nextId, sessions, nextSid, db_scanlock,
          pause_event, pc, loc, draw, resp, stable, manual, config, call,
          read_limit, write_semaphore, read_semaphore, read_num,
          read_num_lock, task

core_vars == <<now, fs, catalog, nextId, sessions, nextSid, db_scanlock,
               pause_event, pc, loc, draw, resp, stable, manual>>
rw_vars == <<read_limit, write_semaphore, read_semaphore, read_num,
             read_num_lock, task>>
\* what a step of the service, /pause and /resume aside, leaves alone
beside_core == <<manual, config, call, rw_vars>>
vars == <<core_vars, config, call, rw_vars>>

NoLoc == [sfiles |-> <<>>, dfiles |-> <<>>, to_add |-> {}, to_update |-> {},
          to_delete |-> {}, todo |-> {}, result |-> <<>>]
NoDraw == [pc |-> "idle"]
NoResp == [op |-> "none", code |-> 0]

started == pc["startup"] = "finished"

\* ------------------------------------------------------------ musiclib.py
walk_all_musicfiles(files) ==
    [p \in {q \in Paths : files[q] # NoFile} |-> files[p].mtime]

\* ---------------------------------------------------------------- core.py
Dfiles(cat) == [p \in {q \in Paths : cat[q] # NoEntry} |-> cat[p].last_update]

InitFs(tags) ==
    fs \in [Paths -> {NoFile} \cup [mtime : {0}, tag : tags]]

\* ConfigModel with its defaults
DefaultConfig == [default_expires |-> default_expires]

\* no function of musiclib.py is being called
NoArgs == [input_string |-> <<>>, delimiter |-> <<>>, exclusions |-> <<>>,
           ignore_case |-> FALSE, artist_field |-> <<>>]
NoCall == [fn |-> "none", args |-> NoArgs, pc |-> "idle", out |-> <<>>]

\* the tasks that use the RWContext
Tasks == {"t1", "t2", "t3"}

\* RWContext.__init__(read_limit), with 0 for "no limit"
RWInit(limit) ==
    /\ read_limit = limit
    /\ write_semaphore = 1
    /\ read_semaphore = limit
    /\ read_num = 0
    /\ read_num_lock = "free"
    /\ task = [t \in Tasks |-> "out"]

InitIdle ==
    /\ manual = FALSE
    /\ now = 0
    /\ catalog = [p \in Paths |-> NoEntry]
    /\ nextId = 1
    /\ sessions = {}
    /\ nextSid = 1
    /\ db_scanlock = FALSE
    /\ pause_event = FALSE
    /\ pc = [s \in Scanners |-> "idle"]
    /\ loc = [s \in Scanners |-> NoLoc]
    /\ draw = NoDraw
    /\ resp = NoResp
    /\ stable = 0

InitRest ==
    /\ config = DefaultConfig
    /\ call = NoCall
    /\ RWInit(0)
    /\ InitIdle

Init == InitFs({TagXY}) /\ InitRest
InitSession == InitFs({TagXY, TagZ}) /\ InitRest

\* the Authorization header of a request: absent, wrong or the access token
AuthInputs == {"none", "bad", "ok"}

verify_token(auth) ==
    IF auth = "none" THEN "no_token"
    ELSE IF auth = "bad" THEN "bad_token"
    ELSE "ok"

\* a decorator that calls the function without taking the lock
with_lock_acquire_nolock(lock) == lock \in BOOLEAN

\* with_lock(lock): the wrapped call runs inside "with lock:"
with_lock_acquire(lock) == lock = FALSE
with_lock_release == FALSE

Expired(t) == {x \in sessions : x.expires <= t}

clear_expired_session ==
    /\ started
    /\ sessions' = sessions \ Expired(now)
    /\ UNCHANGED <<now, fs, catalog, nextId, nextSid, db_scanlock,
                   pause_event, pc, loc, draw, resp, stable>>
    /\ UNCHANGED beside_core

\* lifespan: create tables, sweep, then the startup scan is called
lifespan ==
    /\ pc["startup"] = "idle"
    /\ sessions' = sessions \ Expired(now)
    /\ pc' = [pc EXCEPT !["startup"] = "wait"]
    /\ UNCHANGED <<now, fs, catalog, nextId, nextSid, db_scanlock,
                   pause_event, loc, draw, resp, stable>>
    /\ UNCHANGED beside_core

\* the scheduler's interval job calls scan_update_musiclib
sched_job ==
    /\ started
    /\ pc["sched"] = "idle"
    /\ pc' = [pc EXCEPT !["sched"] = "wait"]
    /\ UNCHANGED <<now, fs, catalog, nextId, sessions, nextSid, db_scanlock,
                   pause_event, loc, draw, resp, stable>>
    /\ UNCHANGED beside_core

\* GET /scan up to the await: verify_token, with_event_set sets the event
\* (resp keeps the last response of /scan, /draw and /get)
do_scan(r, auth) ==
    /\ started
    /\ pc[r] = "idle"
    /\ IF verify_token(auth) = "ok"
       THEN /\ pause_event' = TRUE
            /\ pc' = [pc EXCEPT ![r] = "wait"]
            /\ UNCHANGED resp
       ELSE /\ resp' = [op |-> "scan", code |-> 403,
                        detail |-> verify_token(auth)]
            /\ UNCHANGED <<pause_event, pc>>
    /\ UNCHANGED <<now, fs, catalog, nextId, sessions, nextSid, db_scanlock,
                   loc, draw, stable>>
    /\ UNCHANGED beside_core

\* ScanSets without the loop over the catalog's paths
ScanSets_nodelete(sfiles, dfiles) ==
    LET upd == {p \in DOMAIN sfiles :
                   IF p \in DOMAIN dfiles THEN sfiles[p] > dfiles[p] ELSE FALSE}
    IN [sfiles |-> sfiles, dfiles |-> dfiles,
        to_add |-> DOMAIN sfiles \ DOMAIN dfiles,
        to_update |-> upd,
        to_delete |-> {},
        todo |-> upd, result |-> <<>>]

\* the two loops that fill to_add, to_update and to_delete
ScanSets(sfiles, dfiles) ==
    LET upd == {p \in DOMAIN sfiles :
                   IF p \in DOMAIN dfiles THEN sfiles[p] > dfiles[p] ELSE FALSE}
    IN [sfiles |-> sfiles, dfiles |-> dfiles,
        to_add |-> DOMAIN sfiles \ DOMAIN dfiles,
        to_update |-> upd,
        to_delete |-> DOMAIN dfiles \ DOMAIN sfiles,
        todo |-> upd, result |-> <<>>]

\* scan_update_musiclib: take the lock, walk the library, load the catalog
\* projection and compute the three sets
ScanBegin(s) ==
    /\ pc[s] = "wait"
    /\ with_lock_acquire(db_scanlock)
    /\ db_scanlock' = TRUE
    /\ loc' = [loc EXCEPT ![s] = ScanSets(walk_all_musicfiles(fs),
                                          Dfiles(catalog))]
    /\ pc' = [pc EXCEPT ![s] = "add"]
    /\ stable' = IF stable = 2 THEN 2 ELSE 1
    /\ UNCHANGED <<now, fs, catalog, nextId, sessions, nextSid, pause_event,
                   draw, resp>>
    /\ UNCHANGED beside_core

\* an exception leaves scan_update_musiclib: the lock is released
ScanRaise(s) ==
    /\ pc' = [pc EXCEPT ![s] = "exc"]
    /\ loc' = [loc EXCEPT ![s] = NoLoc]
    /\ db_scanlock' = with_lock_release
    /\ stable' = 0

RECURSIVE SetToSeq(_)
SetToSeq(S) ==
    IF S = {} THEN <<>>
    ELSE LET x == CHOOSE y \in S : TRUE IN <<x>> \o SetToSeq(S \ {x})

Index(q, x) == CHOOSE i \in 1..Len(q) : q[i] = x

NewItem(p, id, t) ==
    LET m == read_metadata(fs[p].tag)
    IN [id |-> id, last_update |-> t, title |-> m.title, album |-> m.album,
        artists |-> m.artists]

\* the "if to_add" block: one commit for all added records
ScanAdd(s) ==
    /\ pc[s] = "add"
    /\ LET add == loc[s].to_add
           order == SetToSeq(add)
       IN IF \E p \in add : ReadFails(fs[p])
          THEN /\ ScanRaise(s)
               /\ UNCHANGED <<catalog, nextId>>
          ELSE /\ nextId + Cardinality(add) - 1 <= MaxIds
               /\ catalog' = [p \in Paths |->
                                IF p \in add
                                THEN NewItem(p, nextId + Index(order, p) - 1, now)
                                ELSE catalog[p]]
               /\ nextId' = nextId + Cardinality(add)
               /\ pc' = [pc EXCEPT ![s] = "update"]
               /\ UNCHANGED <<db_scanlock, stable, loc>>
    /\ UNCHANGED <<now, fs, sessions, nextSid, pause_event, draw, resp>>
    /\ UNCHANGED beside_core

\* setattr for every field of read_metadata(path).model_dump()
UpdateItem(item, m) ==
    [item EXCEPT !.title = m.title, !.album = m.album, !.artists = m.artists]

\* one iteration of "for path in to_update": select, re-read, commit
ScanUpdate(s) ==
    /\ pc[s] = "update"
    /\ \E p \in loc[s].todo :
          IF catalog[p] = NoEntry \/ ReadFails(fs[p])
          THEN /\ ScanRaise(s)
               /\ UNCHANGED catalog
          ELSE /\ catalog' = [catalog EXCEPT
                                ![p] = UpdateItem(@, read_metadata(fs[p].tag))]
               /\ loc' = [loc EXCEPT ![s].todo = @ \ {p}]
               /\ UNCHANGED <<pc, db_scanlock, stable>>
    /\ UNCHANGED <<now, fs, nextId, sessions, nextSid, pause_event, draw, resp>>
    /\ UNCHANGED beside_core

\* the value scan_update_musiclib returns
Counts(l) == <<Cardinality(l.to_add), Cardinality(l.to_update),
               Cardinality(l.to_delete)>>

\* the delete block also deleting the sessions of the records it deletes
ScanDelete_cascade(s) ==
    /\ pc[s] = "update"
    /\ loc[s].todo = {}
    /\ IF \E p \in loc[s].to_delete : catalog[p] = NoEntry
       THEN /\ ScanRaise(s)
            /\ UNCHANGED <<catalog, sessions>>
       ELSE /\ catalog' = [p \in Paths |->
                             IF p \in loc[s].to_delete THEN NoEntry
                             ELSE catalog[p]]
            /\ sessions' = {x \in sessions :
                               \A p \in loc[s].to_delete :
                                  x.music_id # catalog[p].id}
            /\ pc' = [pc EXCEPT ![s] = "ret"]
            /\ loc' = [loc EXCEPT ![s] = [NoLoc EXCEPT !.result = Counts(loc[s])]]
            /\ db_scanlock' = with_lock_release
            /\ stable' = IF stable >= 1 THEN 2 ELSE 0
    /\ UNCHANGED <<now, fs, nextId, nextSid, pause_event, draw, resp>>
    /\ UNCHANGED beside_core

\* the "if to_delete" block, then the return: the lock is released
ScanDelete(s) ==
    /\ pc[s] = "update"
    /\ loc[s].todo = {}
    /\ IF \E p \in loc[s].to_delete : catalog[p] = NoEntry
       THEN /\ ScanRaise(s)
            /\ UNCHANGED catalog
       ELSE /\ catalog' = [p \in Paths |->
                             IF p \in loc[s].to_delete THEN NoEntry
                             ELSE catalog[p]]
            /\ pc' = [pc EXCEPT ![s] = "ret"]
            /\ loc' = [loc EXCEPT ![s] = [NoLoc EXCEPT !.result = Counts(loc[s])]]
            /\ db_scanlock' = with_lock_release
            /\ stable' = IF stable >= 1 THEN 2 ELSE 0
    /\ UNCHANGED <<now, fs, nextId, sessions, nextSid, pause_event, draw, resp>>
    /\ UNCHANGED beside_core

\* the caller resumes: lifespan goes on to start the scheduler
lifespan_started ==
    /\ pc["startup"] = "ret"
    /\ pc' = [pc EXCEPT !["startup"] = "finished"]
    /\ loc' = [loc EXCEPT !["startup"] = NoLoc]
    /\ UNCHANGED <<now, fs, catalog, nextId, sessions, nextSid, db_scanlock,
                   pause_event, draw, resp, stable>>
    /\ UNCHANGED beside_core

sched_job_end ==
    /\ pc["sched"] \in {"ret", "exc"}
    /\ pc' = [pc EXCEPT !["sched"] = "idle"]
    /\ loc' = [loc EXCEPT !["sched"] = NoLoc]
    /\ UNCHANGED <<now, fs, catalog, nextId, sessions, nextSid, db_scanlock,
                   pause_event, draw, resp, stable>>
    /\ UNCHANGED beside_core

\* do_scan_end with the clear after the await instead of in a finally clause
do_scan_end_nofinally(r) ==
    /\ pc[r] \in {"ret", "exc"}
    /\ pause_event' = IF pc[r] = "ret" THEN FALSE ELSE pause_event
    /\ resp' = IF pc[r] = "ret"
               THEN [op |-> "scan", code |-> 200]
               ELSE [op |-> "scan", code |-> 500, detail |-> "exception"]
    /\ pc' = [pc EXCEPT ![r] = "idle"]
    /\ loc' = [loc EXCEPT ![r] = NoLoc]
    /\ UNCHANGED <<now, fs, catalog, nextId, sessions, nextSid, db_scanlock,
                   draw, stable>>
    /\ UNCHANGED beside_core

\* with_event_set's finally clause, then the response of GET /scan (its
\* body is loc[r].result, the counts the pass returned)
do_scan_end(r) ==
    /\ pc[r] \in {"ret", "exc"}
    /\ pause_event' = FALSE
    /\ resp' = IF pc[r] = "ret"
               THEN [op |-> "scan", code |-> 200]
               ELSE [op |-> "scan", code |-> 500, detail |-> "exception"]
    /\ pc' = [pc EXCEPT ![r] = "idle"]
    /\ loc' = [loc EXCEPT ![r] = NoLoc]
    /\ UNCHANGED <<now, fs, catalog, nextId, sessions, nextSid, db_scanlock,
                   draw, stable>>
    /\ UNCHANGED beside_core

\* GET /pause and GET /resume
pause(auth) ==
    /\ started
    /\ IF verify_token(auth) = "ok"
       THEN pause_event' = TRUE /\ manual' = TRUE
       ELSE UNCHANGED <<pause_event, manual>>
    /\ UNCHANGED <<now, fs, catalog, nextId, sessions, nextSid, db_scanlock,
                   pc, loc, draw, resp, stable>>
    /\ UNCHANGED <<config, call, rw_vars>>

resume(auth) ==
    /\ started
    /\ IF verify_token(auth) = "ok"
       THEN pause_event' = FALSE /\ manual' = FALSE
       ELSE UNCHANGED <<pause_event, manual>>
    /\ UNCHANGED <<now, fs, catalog, nextId, sessions, nextSid, db_scanlock,
                   pc, loc, draw, resp, stable>>
    /\ UNCHANGED <<config, call, rw_vars>>

check_pause == IF pause_event THEN "paused" ELSE "ok"

\* col.icontains(value): NULL never matches; lower(col) LIKE %lower(value)%
icontains(column, value) ==
    column # None /\ Contains(Lower(column), Lower(value))

SanitizeArtist(a) == RemoveChars(Strip(a), {"\"", "'", "\\", "/", "[", "]", "{", "}"})

\* the WHERE clauses new_share builds from title, album and artist
Selected(item, f) ==
    LET title == Strip(f.title)
        album == Strip(f.album)
        artist == SanitizeArtist(f.artist)
    IN /\ title # <<>> => icontains(item.title, title)
       /\ album # <<>> => icontains(item.album, album)
       /\ artist # <<>> => icontains(item.artists, artist)

Items(cat) == {[path |-> p, row |-> cat[p]] : p \in {q \in Paths : cat[q] # NoEntry}}

\* GET /draw up to the SELECT: verify_token, check_pause, the bounds of
\* expires, then one random row among those the statement selects
new_share(auth, expires, f) ==
    /\ started
    /\ draw.pc = "idle"
    /\ nextSid <= MaxSessions
    /\ IF verify_token(auth) # "ok"
       THEN /\ resp' = [op |-> "draw", code |-> 403,
                        detail |-> verify_token(auth)]
            /\ UNCHANGED draw
       ELSE IF check_pause # "ok"
       THEN /\ resp' = [op |-> "draw", code |-> 503, detail |-> "paused"]
            /\ UNCHANGED draw
       ELSE IF expires # Omitted /\ (expires < MinExpires \/ expires > MaxExpires)
       THEN /\ resp' = [op |-> "draw", code |-> 422, detail |-> "expires"]
            /\ UNCHANGED draw
       ELSE IF \A it \in Items(catalog) : ~Selected(it.row, f)
       THEN /\ resp' = [op |-> "draw", code |-> 503, detail |-> "no_content"]
            /\ UNCHANGED draw
       ELSE /\ \E it \in Items(catalog) :
                 /\ Selected(it.row, f)
                 /\ draw' = [pc |-> "selected", item |-> it, f |-> f,
                             expires |-> IF expires = Omitted
                                         THEN config.default_expires
                                         ELSE expires]
            /\ UNCHANGED resp
    /\ UNCHANGED <<now, fs, catalog, nextId, sessions, nextSid, db_scanlock,
                   pause_event, pc, loc, stable>>
    /\ UNCHANGED beside_core

\* GET /draw from the AccessSession insert to the response; MusicResp
\* json.loads the artists column and requires a list
new_share_commit ==
    /\ draw.pc = "selected"
    /\ sessions' = sessions \cup {[id |-> nextSid,
                                    music_id |-> draw.item.row.id,
                                    expires |-> now + draw.expires]}
    /\ nextSid' = nextSid + 1
    /\ resp' = IF draw.item.row.artists = json_dumps(NoneList)
               THEN [op |-> "draw", code |-> 500, detail |-> "validation"]
               ELSE [op |-> "draw", code |-> 200,
                     body |-> [id |-> draw.item.row.id, session |-> nextSid]]
    /\ draw' = NoDraw
    /\ UNCHANGED <<now, fs, catalog, nextId, db_scanlock, pause_event, pc, loc,
                   stable>>
    /\ UNCHANGED beside_core

Tokens == 1..(MaxSessions + 1)

\* verify_session comparing with >= instead of >
verify_session_ge(tok) ==
    LET found == {x \in sessions : x.id = tok}
    IN IF found = {} THEN [ok |-> FALSE, del |-> {}]
       ELSE LET sess == CHOOSE x \in found : TRUE
            IN IF sess.expires >= now THEN [ok |-> TRUE, sess |-> sess, del |-> {}]
               ELSE [ok |-> FALSE, del |-> {sess}]

\* the session dependency of the serving endpoints
verify_session(tok) ==
    LET found == {x \in sessions : x.id = tok}
    IN IF found = {} THEN [ok |-> FALSE, del |-> {}]
       ELSE LET sess == CHOOSE x \in found : TRUE
            IN IF sess.expires > now THEN [ok |-> TRUE, sess |-> sess, del |-> {}]
               ELSE [ok |-> FALSE, del |-> {sess}]

\* get_file with the session dependency declared before the pause dependency
get_file_sessfirst(tok) ==
    /\ started
    /\ LET v == verify_session(tok)
       IN /\ sessions' = sessions \ v.del
          /\ IF ~v.ok
             THEN resp' = [op |-> "get", code |-> 403, detail |-> "session"]
             ELSE IF check_pause # "ok"
             THEN resp' = [op |-> "get", code |-> 503, detail |-> "paused"]
             ELSE LET found == {it \in Items(catalog) :
                                  it.row.id = v.sess.music_id}
                  IN IF \E it \in found : fs[it.path] # NoFile
                     THEN resp' = [op |-> "get", code |-> 200,
                                   body |-> [id |-> v.sess.music_id]]
                     ELSE resp' = [op |-> "get", code |-> 404,
                                   detail |-> "file_missing"]
    /\ UNCHANGED <<now, fs, catalog, nextId, nextSid, db_scanlock, pause_event,
                   pc, loc, draw, stable>>
    /\ UNCHANGED beside_core

\* get_file that extends the session it serves by default_expires
get_file_renew(tok) ==
    /\ started
    /\ IF check_pause # "ok"
       THEN /\ resp' = [op |-> "get", code |-> 503, detail |-> "paused"]
            /\ UNCHANGED sessions
       ELSE LET v == verify_session(tok)
            IN /\ sessions' =
                    IF v.ok
                    THEN (sessions \ {v.sess})
                         \cup {[v.sess EXCEPT !.expires = now + default_expires]}
                    ELSE sessions \ v.del
               /\ IF ~v.ok
                  THEN resp' = [op |-> "get", code |-> 403, detail |-> "session"]
                  ELSE LET found == {it \in Items(catalog) :
                                       it.row.id = v.sess.music_id}
                       IN IF \E it \in found : fs[it.path] # NoFile
                          THEN resp' = [op |-> "get", code |-> 200,
                                        body |-> [id |-> v.sess.music_id]]
                          ELSE resp' = [op |-> "get", code |-> 404,
                                        detail |-> "file_missing"]
    /\ UNCHANGED <<now, fs, catalog, nextId, nextSid, db_scanlock, pause_event,
                   pc, loc, draw, stable>>
    /\ UNCHANGED beside_core

\* GET /get: check_pause, verify_session, then the row and the file
get_file(tok) ==
    /\ started
    /\ IF check_pause # "ok"
       THEN /\ resp' = [op |-> "get", code |-> 503, detail |-> "paused"]
            /\ UNCHANGED sessions
       ELSE LET v == verify_session(tok)
            IN /\ sessions' = sessions \ v.del
               /\ IF ~v.ok
                  THEN resp' = [op |-> "get", code |-> 403, detail |-> "session"]
                  ELSE LET found == {it \in Items(catalog) :
                                       it.row.id = v.sess.music_id}
                       IN IF \E it \in found : fs[it.path] # NoFile
                          THEN resp' = [op |-> "get", code |-> 200,
                                        body |-> [id |-> v.sess.music_id]]
                          ELSE resp' = [op |-> "get", code |-> 404,
                                        detail |-> "file_missing"]
    /\ UNCHANGED <<now, fs, catalog, nextId, nextSid, db_scanlock, pause_event,
                   pc, loc, draw, stable>>
    /\ UNCHANGED beside_core

\* ------------------------------------------------------- the environment
\* the clock advances in steps of the shortest session lifetime
Tick ==
    /\ now < MaxTicks * MinExpires
    /\ now' = now + MinExpires
    /\ UNCHANGED <<fs, catalog, nextId, sessions, nextSid, db_scanlock,
                   pause_event, pc, loc, draw, resp, stable>>
    /\ UNCHANGED beside_core

FsWrite(p, tag) ==
    /\ IF fs[p] = NoFile THEN TRUE ELSE fs[p].tag # tag
    /\ fs' = [fs EXCEPT ![p] = [mtime |-> now, tag |-> tag]]
    /\ UNCHANGED <<now, catalog, nextId, sessions, nextSid, db_scanlock,
                   pause_event, pc, loc, draw, resp>>
    /\ stable' = 0
    /\ UNCHANGED beside_core

FsTouch(p) ==
    /\ fs[p] # NoFile
    /\ IF fs[p] = NoFile THEN FALSE ELSE fs[p].mtime < now
    /\ fs' = [fs EXCEPT ![p].mtime = now]
    /\ UNCHANGED <<now, catalog, nextId, sessions, nextSid, db_scanlock,
                   pause_event, pc, loc, draw, resp>>
    /\ stable' = 0
    /\ UNCHANGED beside_core

FsRemove(p) ==
    /\ fs[p] # NoFile
    /\ fs' = [fs EXCEPT ![p] = NoFile]
    /\ UNCHANGED <<now, catalog, nextId, sessions, nextSid, db_scanlock,
                   pause_event, pc, loc, draw, resp>>
    /\ stable' = 0
    /\ UNCHANGED beside_core

NoFilter == [title |-> <<>>, album |-> <<>>, artist |-> <<>>]
ExpiresInputs == {Omitted, 30}

\* the whole service; the specifications after it are the parts of it that
\* the properties are checked under
Next ==
    \/ lifespan
    \/ lifespan_started
    \/ sched_job
    \/ sched_job_end
    \/ \E r \in Requests, a \in AuthInputs : do_scan(r, a)
    \/ \E r \in Requests : do_scan_end(r)
    \/ \E s \in Scanners : ScanBegin(s)
    \/ \E s \in Scanners : ScanAdd(s)
    \/ \E s \in Scanners : ScanUpdate(s)
    \/ \E s \in Scanners : ScanDelete(s)
    \/ clear_expired_session
    \/ \E a \in AuthInputs : pause(a)
    \/ \E a \in AuthInputs : resume(a)
    \/ \E a \in AuthInputs, e \in ExpiresInputs : new_share(a, e, NoFilter)
    \/ new_share_commit
    \/ \E t \in Tokens : get_file(t)
    \/ Tick
    \/ \E p \in Paths : FsWrite(p, TagXY)
    \/ \E p \in Paths : FsTouch(p)
    \/ \E p \in Paths : FsRemove(p)

Spec == Init /\ [][Next]_vars

\* the reconciler with the startup scan, the scheduled scan and one /scan
NextScan ==
    \/ lifespan
    \/ lifespan_started
    \/ sched_job
    \/ sched_job_end
    \/ \E a \in AuthInputs : do_scan("r1", a)
    \/ do_scan_end("r1")
    \/ \E s \in Scanners : ScanBegin(s)
    \/ \E s \in Scanners : ScanAdd(s)
    \/ \E s \in Scanners : ScanUpdate(s)
    \/ \E s \in Scanners : ScanDelete(s)
    \/ Tick
    \/ \E p \in Paths : FsWrite(p, TagXY)
    \/ \E p \in Paths : FsTouch(p)
    \/ \E p \in Paths : FsRemove(p)

SpecScan == Init /\ [][NextScan]_vars

\* the scan lock and the maintenance gate with two concurrent /scan requests;
\* the clock stands still, so no file is newer than its record and the loop
\* over to_update has nothing to do
NextGate ==
    \/ lifespan
    \/ lifespan_started
    \/ sched_job
    \/ sched_job_end
    \/ \E r \in Requests, a \in AuthInputs : do_scan(r, a)
    \/ \E r \in Requests : do_scan_end(r)
    \/ \E s \in Scanners : ScanBegin(s)
    \/ \E s \in Scanners : ScanAdd(s)
    \/ \E s \in Scanners : ScanDelete(s)
    \/ \E a \in AuthInputs : pause(a)
    \/ \E a \in AuthInputs : resume(a)
    \/ \E p \in Paths : FsWrite(p, TagXY)
    \/ \E p \in Paths : FsRemove(p)

SpecGate == Init /\ [][NextGate]_vars

\* the session store and the draw, with the scheduled scan running beside
NextSession ==
    \/ lifespan
    \/ lifespan_started
    \/ sched_job
    \/ sched_job_end
    \/ \E s \in Scanners : ScanBegin(s)
    \/ \E s \in Scanners : ScanAdd(s)
    \/ \E s \in Scanners : ScanUpdate(s)
    \/ \E s \in Scanners : ScanDelete(s)
    \/ clear_expired_session
    \/ \E a \in AuthInputs : pause(a)
    \/ \E a \in AuthInputs : resume(a)
    \/ \E a \in AuthInputs, e \in ExpiresInputs : new_share(a, e, NoFilter)
    \/ new_share_commit
    \/ \E t \in Tokens : get_file(t)
    \/ Tick
    \/ \E p \in Paths : FsTouch(p)
    \/ \E p \in Paths : FsRemove(p)

SpecSession == InitSession /\ [][NextSession]_vars

\* the filters of a draw: none, artist Y, artist ",", artist q, title "sa",
\* album "l" with artist "x
FilterInputs ==
    {NoFilter,
     [NoFilter EXCEPT !.artist = <<"Y">>],
     [NoFilter EXCEPT !.artist = <<" ", ",", " ">>],
     [NoFilter EXCEPT !.artist = <<"q">>],
     [NoFilter EXCEPT !.title = <<"s", "a">>],
     [NoFilter EXCEPT !.album = <<"l">>, !.artist = <<"\"", "x">>]}

\* draws with filters over the catalog the startup scan builds (the
\* database starts empty, so that scan has nothing to update)
NextFilter ==
    \/ lifespan
    \/ lifespan_started
    \/ ScanBegin("startup")
    \/ ScanAdd("startup")
    \/ ScanDelete("startup")
    \/ \E a \in AuthInputs, e \in ExpiresInputs, f \in FilterInputs :
          new_share(a, e, f)
    \/ new_share_commit

SpecFilter == InitSession /\ [][NextFilter]_vars

\* the reconciler over a library that holds a file TinyTag cannot parse
InitUnreadable == InitFs({TagXY, TagBad}) /\ InitRest

NextUnreadable ==
    \/ lifespan
    \/ lifespan_started
    \/ sched_job
    \/ sched_job_end
    \/ \E s \in Scanners : ScanBegin(s)
    \/ \E s \in Scanners : ScanAdd(s)
    \/ \E s \in Scanners : ScanUpdate(s)
    \/ \E s \in Scanners : ScanDelete(s)
    \/ Tick
    \/ \E p \in Paths : FsWrite(p, TagBad)
    \/ \E p \in Paths : FsRemove(p)

SpecUnreadable == InitUnreadable /\ [][NextUnreadable]_vars

\* draws under every configured default_expires: the default of ConfigModel
\* and the least value its validation (gt=0) admits; expires left out, at
\* and next to the two ends of its range
ConfigExpires == {1, default_expires}
ExpiresEdges == {Omitted, MinExpires - 1, MinExpires, MaxExpires, MaxExpires + 1}

InitExpires ==
    /\ InitFs({TagXY})
    /\ InitIdle
    /\ config \in [default_expires : ConfigExpires]
    /\ call = NoCall
    /\ RWInit(0)

NextExpires ==
    \/ lifespan
    \/ lifespan_started
    \/ ScanBegin("startup")
    \/ ScanAdd("startup")
    \/ ScanDelete("startup")
    \/ \E a \in AuthInputs, e \in ExpiresEdges : new_share(a, e, NoFilter)
    \/ new_share_commit
    \/ \E t \in Tokens : get_file(t)
    \/ Tick

SpecExpires == InitExpires /\ [][NextExpires]_vars

\* ------------------------------------------------ the calls of musiclib.py
Strs(alphabet, n) == UNION {[1..k -> alphabet] : k \in 0..n}

ACDC == <<"A", "C", "/", "D", "C">>
ACDCfeatXY == ACDC \o <<" ", "f", "e", "a", "t", ".", " ", "X", "/", "Y">>

\* the arguments of split_with_exclusions: strings of A and / and the string
\* "AC/DC feat. X/Y", the delimiter /, and no exclusion, "a/a" or "AC/DC"
SplitInputs ==
    {[NoArgs EXCEPT !.input_string = s, !.delimiter = <<"/">>,
                    !.exclusions = e, !.ignore_case = ic] :
        s \in Strs({"A", "/"}, MaxLen) \cup {ACDCfeatXY},
        e \in {<<>>, << <<"a", "/", "a">> >>, <<ACDC>>},
        ic \in BOOLEAN}

\* the artist fields TinyTag hands to handle_artist_field: no element, one
\* element, or two
FieldStrings == Strs({"X", "/", ","}, MaxLen) \cup {ACDC, ACDC \o <<";", "X">>}

FieldInputs ==
    {[NoArgs EXCEPT !.artist_field = f] :
        f \in {<<>>} \cup {<<x>> : x \in FieldStrings}
              \cup {<<x, y>> : x \in FieldStrings, y \in {<<"X">>, <<"X", "/", "X">>}}}

InitLib ==
    /\ fs = [p \in Paths |-> NoFile]
    /\ InitIdle
    /\ config = DefaultConfig
    /\ RWInit(0)
    /\ call \in {[NoCall EXCEPT !.fn = "split_with_exclusions", !.args = a,
                                !.pc = "called"] : a \in SplitInputs}
              \cup {[NoCall EXCEPT !.fn = "handle_artist_field", !.args = a,
                                   !.pc = "called"] : a \in FieldInputs}

call_split_with_exclusions ==
    /\ call.fn = "split_with_exclusions"
    /\ call.pc = "called"
    /\ call' = [call EXCEPT
                  !.pc = "returned",
                  !.out = split_with_exclusions(call.args.input_string,
                                                call.args.delimiter,
                                                call.args.exclusions,
                                                call.args.ignore_case)]
    /\ UNCHANGED <<core_vars, config, rw_vars>>

call_handle_artist_field ==
    /\ call.fn = "handle_artist_field"
    /\ call.pc = "called"
    /\ call' = [call EXCEPT
                  !.pc = "returned",
                  !.out = handle_artist_field(call.args.artist_field)]
    /\ UNCHANGED <<core_vars, config, rw_vars>>

NextLib ==
    \/ call_split_with_exclusions
    \/ call_handle_artist_field

SpecLib == InitLib /\ [][NextLib]_vars

\* ---------------------------------------------------------------- utils.py
\* A task stands at "out" (outside the context), "r_sem", "r_lock", "r_wsem",
\* "w_sem" (suspended in the acquire of read_semaphore, of read_num_lock, of
\* write_semaphore inside read(), of write_semaphore inside write()),
\* "reading" or "writing" (in the body of the with statement).  An acquire
\* suspends the task until the semaphore has a value or the lock is free.
rw_rest == <<core_vars, config, call>>

\* "async with rw.read():" is entered
read_begin(t) ==
    /\ task[t] = "out"
    /\ task' = [task EXCEPT ![t] = IF read_limit # 0 THEN "r_sem"
                                   ELSE "r_lock"]
    /\ UNCHANGED <<read_limit, write_semaphore, read_semaphore, read_num,
                   read_num_lock>>
    /\ UNCHANGED rw_rest

\* await self.read_semaphore.acquire()
read_semaphore_acquire(t) ==
    /\ task[t] = "r_sem"
    /\ read_semaphore > 0
    /\ read_semaphore' = read_semaphore - 1
    /\ task' = [task EXCEPT ![t] = "r_lock"]
    /\ UNCHANGED <<read_limit, write_semaphore, read_num, read_num_lock>>
    /\ UNCHANGED rw_rest

\* read_num_lock_acquire without "if self.read_num == 0: await
\* self.write_semaphore.acquire()"
read_num_lock_acquire_nowrite(t) ==
    /\ task[t] = "r_lock"
    /\ read_num_lock = "free"
    /\ read_num' = read_num + 1
    /\ task' = [task EXCEPT ![t] = "reading"]
    /\ UNCHANGED <<read_limit, write_semaphore, read_semaphore, read_num_lock>>
    /\ UNCHANGED rw_rest

\* async with self.read_num_lock: the first reader goes on to take
\* write_semaphore, holding the lock; any other counts itself in
read_num_lock_acquire(t) ==
    /\ task[t] = "r_lock"
    /\ read_num_lock = "free"
    /\ IF read_num = 0
       THEN /\ read_num_lock' = t
            /\ task' = [task EXCEPT ![t] = "r_wsem"]
            /\ UNCHANGED read_num
       ELSE /\ read_num' = read_num + 1
            /\ task' = [task EXCEPT ![t] = "reading"]
            /\ UNCHANGED read_num_lock
    /\ UNCHANGED <<read_limit, write_semaphore, read_semaphore>>
    /\ UNCHANGED rw_rest

\* await self.write_semaphore.acquire() in read(), then read_num += 1 and
\* the lock is released; the body is entered
read_write_semaphore_acquire(t) ==
    /\ task[t] = "r_wsem"
    /\ write_semaphore > 0
    /\ write_semaphore' = write_semaphore - 1
    /\ read_num' = read_num + 1
    /\ read_num_lock' = "free"
    /\ task' = [task EXCEPT ![t] = "reading"]
    /\ UNCHANGED <<read_limit, read_semaphore>>
    /\ UNCHANGED rw_rest

\* the finally clause of read(): under the lock, read_num -= 1, the last
\* reader releases write_semaphore, read_semaphore is released
read_exit(t) ==
    /\ task[t] = "reading"
    /\ read_num_lock = "free"
    /\ read_num' = read_num - 1
    /\ write_semaphore' = IF read_num - 1 = 0 THEN write_semaphore + 1
                          ELSE write_semaphore
    /\ read_semaphore' = IF read_limit # 0 THEN read_semaphore + 1
                         ELSE read_semaphore
    /\ task' = [task EXCEPT ![t] = "out"]
    /\ UNCHANGED <<read_limit, read_num_lock>>
    /\ UNCHANGED rw_rest

\* "async with rw.write():" is entered
write_begin(t) ==
    /\ task[t] = "out"
    /\ task' = [task EXCEPT ![t] = "w_sem"]
    /\ UNCHANGED <<read_limit, write_semaphore, read_semaphore, read_num,
                   read_num_lock>>
    /\ UNCHANGED rw_rest

\* await self.write_semaphore.acquire() in write()
write_semaphore_acquire(t) ==
    /\ task[t] = "w_sem"
    /\ write_semaphore > 0
    /\ write_semaphore' = write_semaphore - 1
    /\ task' = [task EXCEPT ![t] = "writing"]
    /\ UNCHANGED <<read_limit, read_semaphore, read_num, read_num_lock>>
    /\ UNCHANGED rw_rest

\* the finally clause of write()
write_exit(t) ==
    /\ task[t] = "writing"
    /\ write_semaphore' = write_semaphore + 1
    /\ task' = [task EXCEPT ![t] = "out"]
    /\ UNCHANGED <<read_limit, read_semaphore, read_num, read_num_lock>>
    /\ UNCHANGED rw_rest

\* the task is cancelled while an acquire has it suspended: CancelledError
\* leaves read() or write() before the try statement; "async with" releases
\* read_num_lock, a read_semaphore already acquired is not released
cancel(t) ==
    /\ task[t] \in {"r_sem", "r_lock", "r_wsem", "w_sem"}
    /\ read_num_lock' = IF read_num_lock = t THEN "free" ELSE read_num_lock
    /\ task' = [task EXCEPT ![t] = "out"]
    /\ UNCHANGED <<read_limit, write_semaphore, read_semaphore, read_num>>
    /\ UNCHANGED rw_rest

\* RWContext() and RWContext(read_limit) for every limit up to MaxReadLimit
InitRW ==
    /\ fs = [p \in Paths |-> NoFile]
    /\ InitIdle
    /\ config = DefaultConfig
    /\ call = NoCall
    /\ \E limit \in 0..MaxReadLimit : RWInit(limit)

NextRW ==
    \/ \E t \in Tasks : read_begin(t)
    \/ \E t \in Tasks : read_semaphore_acquire(t)
    \/ \E t \in Tasks : read_num_lock_acquire(t)
    \/ \E t \in Tasks : read_write_semaphore_acquire(t)
    \/ \E t \in Tasks : read_exit(t)
    \/ \E t \in Tasks : write_begin(t)
    \/ \E t \in Tasks : write_semaphore_acquire(t)
    \/ \E t \in Tasks : write_exit(t)
    \/ \E t \in Tasks : cancel(t)

SpecRW == InitRW /\ [][NextRW]_vars

\* ------------------------------------------------------------ properties
InBody(s) == pc[s] \in {"add", "update"}
Returns(s) == pc[s] = "update" /\ pc'[s] = "ret"
Begins(s) == pc[s] = "wait" /\ pc'[s] = "add"
CatalogPaths(cat) == {p \in Paths : cat[p] # NoEntry}
FilePaths(files) == {p \in Paths : files[p] # NoFile}

\* C1: when a pass returns, the catalog's paths are exactly the paths the
\* walker discovered, and, if no file changed since the walk, exactly the
\* files on disk.
C1_Completeness ==
    [][\A s \in Scanners :
         Returns(s) =>
           /\ CatalogPaths(catalog') = DOMAIN loc[s].sfiles
           /\ stable >= 1 => CatalogPaths(catalog') = FilePaths(fs')]_vars

\* a pass that added one path and deleted another has returned
C1_Witness ==
    \E s \in Scanners : pc[s] = "ret" /\ loc[s].result = <<1, 0, 1>>

\* C2: a pass that begins after a completed pass, with no file changed since
\* that pass walked the library, counts (0, 0, 0).
C2_Idempotence ==
    [][\A s \in Scanners :
         (Begins(s) /\ stable = 2) => Counts(loc'[s]) = <<0, 0, 0>>]_vars

InSync(p) ==
    IF fs[p] = NoFile THEN catalog[p] = NoEntry
    ELSE IF catalog[p] = NoEntry THEN FALSE
    ELSE fs[p].mtime <= catalog[p].last_update

Touched(p) ==
    IF fs[p] = NoFile \/ catalog[p] = NoEntry THEN FALSE
    ELSE fs[p].mtime > catalog[p].last_update

\* C3: when the only difference between disk and catalog is one catalogued
\* file with a newer modification time, the pass counts that path as its one
\* update and nothing else; and a pass that follows a completed pass with no
\* file changed in between counts no update.
C3_ChangeDetection ==
    [][\A s \in Scanners :
         Begins(s) =>
           /\ \A p \in Paths :
                 (Touched(p) /\ \A q \in Paths \ {p} : InSync(q)) =>
                    /\ loc'[s].to_update = {p}
                    /\ loc'[s].to_add = {}
                    /\ loc'[s].to_delete = {}
           /\ stable = 2 => loc'[s].to_update = {}]_vars

\* C4: at most one caller is inside scan_update_musiclib, the lock is held
\* exactly while one is, and a caller that waits for the lock leaves the wait
\* only by entering the body.
C4_ScanMutex ==
    /\ [](Cardinality({s \in Scanners : InBody(s)}) <= 1)
    /\ [](db_scanlock <=> \E s \in Scanners : InBody(s))
    /\ [][\A s \in Scanners :
            pc[s] = "wait" => pc'[s] \in {"wait", "add"}]_vars

\* one /scan request runs the pass while the other /scan and the scheduled
\* job wait for the lock
C4_Witness ==
    /\ InBody("r1")
    /\ pc["r2"] = "wait"
    /\ pc["sched"] = "wait"

\* C5: while the server is up and a pass is running, pause_event is set.
C5_GateHeldDuringScan ==
    (started /\ \E s \in Scanners : InBody(s)) => pause_event

\* C6: the step that ends a /scan request, after a return or after an
\* exception of the pass, leaves pause_event clear.
C6_GateReleased ==
    [][\A r \in Requests :
         (pc[r] \in {"ret", "exc"} /\ pc'[r] = "idle") => ~pause_event']_vars

\* a /scan request has ended with an exception and the gate is clear
C6_Witness ==
    /\ resp = [op |-> "scan", code |-> 500, detail |-> "exception"]
    /\ \A r \in Requests : pc[r] = "idle"
    /\ ~pause_event

SessionIds(S) == {x.id : x \in S}
Lookup(tok) == CHOOSE x \in sessions : x.id = tok
EntryIds(cat) == {cat[p].id : p \in CatalogPaths(cat)}

\* C7: every session that a draw commits and answers with 200 references an
\* entry that is in the catalog at the moment of the commit.
C7_AtomicDrawBinding ==
    [][\A x \in sessions' \ sessions :
         resp'.code = 200 => x.music_id \in EntryIds(catalog')]_vars

\* C8: a session is issued with expires > now; a /get that reaches
\* verify_session with a stored token whose expires > now keeps the session
\* and answers for the entry bound to it; with a stored token whose
\* expires <= now it answers 403 and removes the session; with a token that
\* is not stored it answers 403; and a removed token never comes back.
C8_SessionLifecycle ==
    [][/\ \A x \in sessions' \ sessions : x.expires > now'
       /\ \A t \in Tokens :
            (t < nextSid /\ t \notin SessionIds(sessions))
               => t \notin SessionIds(sessions')
       /\ \A t \in Tokens :
            (get_file(t) /\ ~pause_event) =>
               IF t \notin SessionIds(sessions)
               THEN resp'.code = 403 /\ sessions' = sessions
               ELSE IF now < Lookup(t).expires
               THEN /\ sessions' = sessions
                    /\ resp'.code \in {200, 404}
                    /\ resp'.code = 200 => resp'.body.id = Lookup(t).music_id
                    /\ (Lookup(t).music_id \in EntryIds(catalog)
                          /\ \A p \in CatalogPaths(catalog) : fs[p] # NoFile)
                         => resp'.code = 200
               ELSE /\ resp'.code = 403
                    /\ t \notin SessionIds(sessions')]_vars

\* an issued token was refused with 403 after its lifetime and is gone
C8_Witness ==
    /\ resp = [op |-> "get", code |-> 403, detail |-> "session"]
    /\ nextSid = 2
    /\ sessions = {}
    /\ now >= MinExpires

\* C9: a step never changes the music_id or expires of a stored session; a
\* session appears only in the commit step of a draw, under a fresh id; a
\* session disappears only when its expires <= now.
C9_NoRenewal ==
    [][/\ \A x \in sessions :
            x \in sessions' \/ x.id \notin SessionIds(sessions')
       /\ \A x \in sessions' \ sessions :
            /\ draw.pc = "selected" /\ draw'.pc = "idle"
            /\ x.id \notin SessionIds(sessions)
       /\ \A x \in sessions \ sessions' : x.expires <= now]_vars

\* a session is still stored, unchanged, after it was served and the clock
\* moved on
C9_Witness ==
    /\ resp.op = "get" /\ resp.code = 200
    /\ now >= MinExpires
    /\ \E x \in sessions : x.expires = default_expires

\* the lists read_metadata can store, and the list a stored artists column
\* encodes (null encodes no list: no artist name)
ArtistLists == {handle_artist_field(t.artist) : t \in {TagXY, TagZ, TagBad}} \ {NoneList}

ArtistNames(row) ==
    IF \E l \in ArtistLists : json_dumps(l) = row.artists
    THEN SeqToSet(CHOOSE l \in ArtistLists : json_dumps(l) = row.artists)
    ELSE {}

\* every supplied filter matches on its own, case-insensitively
FilterMatches(row, f) ==
    LET title == Strip(f.title)
        album == Strip(f.album)
        artist == SanitizeArtist(f.artist)
    IN /\ title # <<>> =>
            (row.title # None /\ Contains(Lower(row.title), Lower(title)))
       /\ album # <<>> =>
            (row.album # None /\ Contains(Lower(row.album), Lower(album)))
       /\ artist # <<>> =>
            \E n \in ArtistNames(row) : Contains(Lower(n), Lower(artist))

\* C10: the entry a draw returns with 200 matches every supplied filter on
\* its own (the artist filter against the entry's individual artist names);
\* and an accepted draw that no entry matches answers 503 "no_content" and
\* selects nothing.
C10_FilterCorrectness ==
    [][/\ (draw.pc = "selected" /\ draw'.pc = "idle" /\ resp'.code = 200)
            => FilterMatches(draw.item.row, draw.f)
       /\ \A a \in AuthInputs, e \in ExpiresInputs, f \in FilterInputs :
            (/\ new_share(a, e, f)
             /\ a = "ok" /\ ~pause_event
             /\ \A it \in Items(catalog) : ~FilterMatches(it.row, f))
            => (draw' = NoDraw /\ resp'.detail = "no_content")]_vars

\* C11: an authorized draw and a /get that enter while pause_event is set are
\* answered at once with 503 "paused" (the step is enabled, nothing waits),
\* no draw frame is opened, and the step leaves the session store and the
\* catalog as they were: no session is created and none is deleted, not even
\* an expired one.
C11_PausedFailFast ==
    /\ []((started /\ pause_event) => \A t \in Tokens : ENABLED get_file(t))
    /\ [][/\ \A t \in Tokens :
               (get_file(t) /\ pause_event) =>
                  /\ resp' = [op |-> "get", code |-> 503, detail |-> "paused"]
                  /\ sessions' = sessions
                  /\ catalog' = catalog
          /\ \A e \in ExpiresInputs :
               (new_share("ok", e, NoFilter) /\ pause_event) =>
                  /\ resp' = [op |-> "draw", code |-> 503, detail |-> "paused"]
                  /\ draw' = NoDraw
                  /\ sessions' = sessions
                  /\ catalog' = catalog]_vars

\* a /get was refused as paused while the session store holds an expired
\* session, which the refusal left in place
C11_Witness ==
    /\ pause_event
    /\ resp = [op |-> "get", code |-> 503, detail |-> "paused"]
    /\ \E x \in sessions : x.expires <= now

\* the lengths of the exclusions that occur in s at position i
ExclusionsAt(s, i, exclusions, ignore_case) ==
    {Len(e) : e \in {x \in SeqToSet(exclusions) :
                       /\ x # <<>>
                       /\ i + Len(x) - 1 <= Len(s)
                       /\ LET part == SubSeq(s, i, i + Len(x) - 1)
                          IN IF ignore_case THEN Lower(part) = Lower(x)
                             ELSE part = x}}

Longest(S) == CHOOSE n \in S : \A m \in S : m <= n

RECURSIVE SplitOutside(_, _, _, _, _, _)
\* the segments of s from position i on, cur being the segment under way:
\* scanning from the left, an exclusion that occurs at i goes into the
\* segment whole (the longest one if several do), a delimiter that occurs at
\* i ends the segment
SplitOutside(s, delimiter, exclusions, ignore_case, i, cur) ==
    IF i > Len(s) THEN <<cur>>
    ELSE LET here == ExclusionsAt(s, i, exclusions, ignore_case)
         IN IF here # {}
            THEN SplitOutside(s, delimiter, exclusions, ignore_case,
                              i + Longest(here),
                              cur \o SubSeq(s, i, i + Longest(here) - 1))
            ELSE IF Find(s, delimiter, i) = i
            THEN <<cur>> \o SplitOutside(s, delimiter, exclusions, ignore_case,
                                         i + Len(delimiter), <<>>)
            ELSE SplitOutside(s, delimiter, exclusions, ignore_case,
                              i + 1, cur \o <<s[i]>>)

\* C12: split_with_exclusions returns the segments between the occurrences
\* of the delimiter that lie outside every occurrence of an exclusion
\* (occurrences taken from the left, the longest first); an occurrence of an
\* exclusion stays whole inside one segment.
C12_SplitExclusion ==
    (call.fn = "split_with_exclusions" /\ call.pc = "returned") =>
        call.out = SplitOutside(call.args.input_string, call.args.delimiter,
                                call.args.exclusions, call.args.ignore_case,
                                1, <<>>)

\* the MusicMeta fields at their defaults
HasDefaults(row) ==
    row.title = None /\ row.album = None /\ row.artists = <<"[", "]">>

\* C13: a pass is not ended by a file it cannot parse: when every path of
\* to_add is still on disk, the add block goes on to the update loop with a
\* record for each of them, a record with default metadata for a file that
\* TinyTag cannot parse; and a pass in the update loop ends with an exception
\* only if a file of its sets has left the disk or a record has left the
\* catalog.
C13_UnreadableTolerated ==
    [][\A s \in Scanners :
         /\ (pc[s] = "add" /\ pc'[s] # "add"
               /\ \A p \in loc[s].to_add : fs[p] # NoFile)
             => /\ pc'[s] = "update"
                /\ \A p \in loc[s].to_add :
                      /\ catalog'[p] # NoEntry
                      /\ fs[p].tag.bad => HasDefaults(catalog'[p])
         /\ (pc[s] = "update" /\ pc'[s] = "exc")
             => \/ \E p \in loc[s].todo : fs[p] = NoFile \/ catalog[p] = NoEntry
                \/ \E p \in loc[s].to_delete : catalog[p] = NoEntry]_vars

\* the condition a /get meets, in the order the code tests them
KindGet(t) ==
    IF pause_event THEN "Paused"
    ELSE IF t \notin SessionIds(sessions) THEN "NotFound"
    ELSE IF Lookup(t).expires <= now THEN "Expired"
    ELSE IF \A p \in CatalogPaths(catalog) :
               catalog[p].id = Lookup(t).music_id => fs[p] = NoFile
    THEN "NotFound"
    ELSE "none"

\* the condition a /draw without filters meets
KindDraw(auth) ==
    IF auth # "ok" THEN "Unauthorized"
    ELSE IF pause_event THEN "Paused"
    ELSE IF CatalogPaths(catalog) = {} THEN "NoMatch"
    ELSE "none"

\* the error kind a caller reads off the status code and the detail text of
\* a response; the one text "session expired or does not exist" of the 403
\* of verify_session is read as Expired
ErrorKind(r) ==
    CASE r.code = 403 /\ r.detail \in {"no_token", "bad_token"} -> "Unauthorized"
      [] r.code = 403 /\ r.detail = "session" -> "Expired"
      [] r.code = 503 /\ r.detail = "paused" -> "Paused"
      [] r.code = 503 /\ r.detail = "no_content" -> "NoMatch"
      [] r.code = 404 -> "NotFound"
      [] OTHER -> "none"

\* C14: the response to a /get and to a refused /draw tells the caller the
\* kind of the failure: Paused, NoMatch, Unauthorized, Expired (a stored
\* session past its time) and NotFound (no such session, or no entry or file
\* for it) each have responses that no other kind has.
C14_DistinctErrorKinds ==
    [][/\ \A t \in Tokens : get_file(t) => ErrorKind(resp') = KindGet(t)
       /\ \A a \in AuthInputs, e \in ExpiresInputs :
            (new_share(a, e, NoFilter) /\ draw'.pc = "idle")
               => ErrorKind(resp') = KindDraw(a)]_vars

\* C15: an iteration of the update loop keeps the id (and the path) of the
\* record it rewrites and sets its last_update to the current time, which is
\* later than the old last_update and not earlier than the file's mtime.
C15_UpdateWatermark ==
    [][\A s \in Scanners, p \in Paths :
         (pc[s] = "update" /\ pc'[s] = "update"
            /\ p \in loc[s].todo /\ p \notin loc'[s].todo)
         => /\ catalog'[p] # NoEntry
            /\ catalog'[p].id = catalog[p].id
            /\ catalog'[p].last_update = now
            /\ catalog'[p].last_update > catalog[p].last_update
            /\ catalog'[p].last_update >= fs[p].mtime]_vars

\* the configured delimiters that split s into more than one segment
Splitting(s) ==
    {k \in 1..Len(artists_split) :
        Len(split_with_exclusions(s, artists_split[k], artists_dont_split,
                                  FALSE)) > 1}

FirstSplitting(s) == CHOOSE k \in Splitting(s) : \A j \in Splitting(s) : k <= j

\* C16: handle_artist_field returns a field that does not have exactly one
\* element as it is; for a field of one element it returns the split by the
\* first configured delimiter that yields more than one segment, and the
\* field itself when no configured delimiter does; it never returns None.
C16_DelimiterSelection ==
    (call.fn = "handle_artist_field" /\ call.pc = "returned") =>
        LET artist_field == call.args.artist_field
        IN /\ call.out # NoneList
           /\ call.out =
                IF Len(artist_field) # 1 THEN artist_field
                ELSE IF Splitting(artist_field[1]) # {}
                THEN split_with_exclusions(
                         artist_field[1],
                         artists_split[FirstSplitting(artist_field[1])],
                         artists_dont_split, FALSE)
                ELSE artist_field

\* C17: a step that changes the catalog leaves the session store as it is;
\* a record that enters the catalog has an id that no stored session
\* references; and a /get, while pause_event is clear, with a stored
\* unexpired session whose record is no longer in the catalog answers 404 and
\* keeps the session.
C17_OrphanFailsClosed ==
    [][/\ catalog' # catalog => sessions' = sessions
       /\ \A x \in sessions :
            x.music_id \notin EntryIds(catalog') \ EntryIds(catalog)
       /\ \A t \in Tokens :
            (/\ get_file(t)
             /\ ~pause_event
             /\ t \in SessionIds(sessions)
             /\ Lookup(t).expires > now
             /\ Lookup(t).music_id \notin EntryIds(catalog))
            => /\ resp' = [op |-> "get", code |-> 404,
                           detail |-> "file_missing"]
               /\ sessions' = sessions]_vars

\* a /get was answered 404 for a stored, unexpired session whose record the
\* reconciler deleted, while the catalog holds another record
C17_Witness ==
    /\ resp = [op |-> "get", code |-> 404, detail |-> "file_missing"]
    /\ EntryIds(catalog) # {}
    /\ \E x \in sessions :
          x.expires > now /\ x.music_id \notin EntryIds(catalog)

\* C18: every session a draw stores has a lifetime, expires minus the time
\* of the draw, of at least 30 and at most 86400 seconds, whatever the
\* configured default_expires; a draw whose expires is given outside that
\* range stores nothing.
C18_LifetimeBound ==
    [][/\ \A x \in sessions' \ sessions :
            /\ x.expires - now >= MinExpires
            /\ x.expires - now <= MaxExpires
       /\ \A a \in AuthInputs, e \in ExpiresEdges :
            (new_share(a, e, NoFilter) /\ e # Omitted
               /\ (e < MinExpires \/ e > MaxExpires))
            => draw' = NoDraw]_vars

\* C19: from an authorized /pause until the next authorized /resume
\* pause_event is set, whatever pass starts or ends in between.
C19_ManualPausePersists == manual => pause_event

Readers == {t \in Tasks : task[t] = "reading"}
Writers == {t \in Tasks : task[t] = "writing"}

\* C20: at most one task is in the body of a write context; none is while a
\* task is in the body of a read context; read_num is the number of tasks in
\* the body of a read context; with a read_limit that number is at most the
\* limit.
C20_ReaderWriterExclusion ==
    /\ Cardinality(Writers) <= 1
    /\ Writers # {} => Readers = {}
    /\ read_num = Cardinality(Readers)
    /\ read_limit # 0 => Cardinality(Readers) <= read_limit

\* with read_limit 1 one task reads while a second waits for a read slot and
\* a third waits to write
C20_Witness ==
    /\ read_limit = 1
    /\ Cardinality(Readers) = 1
    /\ \E t \in Tasks : task[t] = "r_sem"
    /\ \E t \in Tasks : task[t] = "w_sem"
====
